---- MODULE Spec2Model ----
(***************************************************************************)
(* CompoundRelativeParser (src/dateparser/compound_relative_parser.py):    *)
(* resolution of "<qualifier> <weekday>" and "<qualifier> month <day>"     *)
(* phrases of ten locales against a base time.                             *)
(*                                                                         *)
(* A Python str is a sequence of characters.  A printable ASCII character  *)
(* is the one-character string itself; any other character is written by   *)
(* its code point, "U+4E0A".  Python's None is the record None; a datetime *)
(* is a record of kind "datetime"; an exception that leaves a call is a    *)
(* record of kind "raise".                                                 *)
(***************************************************************************)
EXTENDS Integers, Sequences, FiniteSets, TLC

None == [kind |-> "None"]

\* ------------------------------------------------------------------------
\* str: lower(), strip(), int()
\* ------------------------------------------------------------------------

\* The characters str.strip() removes and the regex class \s matches.
Whitespace == {" ", "\t", "\n"}

\* The characters the regex class \d matches and int() reads.
DigitChars == <<"0", "1", "2", "3", "4", "5", "6", "7", "8", "9">>

UpperChars ==
  <<"A", "B", "C", "D", "E", "F", "G", "H", "I", "J", "K", "L", "M",
    "N", "O", "P", "Q", "R", "S", "T", "U", "V", "W", "X", "Y", "Z",
    "U+00C1", "U+00C9", "U+00D3", "U+00C4", "U+00C7", "U+00CA", "U+00CC",
    "U+041F", "U+0421", "U+042D", "U+0412", "U+0427">>

LowerChars ==
  <<"a", "b", "c", "d", "e", "f", "g", "h", "i", "j", "k", "l", "m",
    "n", "o", "p", "q", "r", "s", "t", "u", "v", "w", "x", "y", "z",
    "U+00E1", "U+00E9", "U+00F3", "U+00E4", "U+00E7", "U+00EA", "U+00EC",
    "U+043F", "U+0441", "U+044D", "U+0432", "U+0447">>

LowerOf == [c \in {UpperChars[i] : i \in DOMAIN UpperChars} |->
              LowerChars[CHOOSE i \in DOMAIN UpperChars : UpperChars[i] = c]]

\* str.lower() of one character.
LowerChar(c) == IF c \in DOMAIN LowerOf THEN LowerOf[c] ELSE c

\* str.lower()
Lower(s) == [i \in DOMAIN s |-> LowerChar(s[i])]

\* str.lstrip(), str.rstrip(), str.strip(): whitespace removed at the ends.
RECURSIVE LStrip(_)
LStrip(s) == IF s # <<>> /\ Head(s) \in Whitespace THEN LStrip(Tail(s)) ELSE s

RECURSIVE RStrip(_)
RStrip(s) ==
  IF s # <<>> /\ s[Len(s)] \in Whitespace THEN RStrip(SubSeq(s, 1, Len(s) - 1)) ELSE s

Strip(s) == RStrip(LStrip(s))

Digits == {DigitChars[i] : i \in DOMAIN DigitChars}

DigitValue(c) == (CHOOSE i \in DOMAIN DigitChars : DigitChars[i] = c) - 1

IsDigits(s) == s # <<>> /\ \A i \in DOMAIN s : s[i] \in Digits

\* int(s) of a string of decimal digits.
RECURSIVE IntOf(_)
IntOf(s) ==
  IF s = <<>> THEN 0
  ELSE 10 * IntOf(SubSeq(s, 1, Len(s) - 1)) + DigitValue(s[Len(s)])

\* ------------------------------------------------------------------------
\* re: a compiled pattern is [ic, items].  ic is re.IGNORECASE.  An item is
\*   "lit": an ordered alternation of literals, group number cap (0: not
\*          captured), opt when the group is followed by ?;
\*   "cls": an ordered alternation of character classes, each repeated
\*          greedily min..max times, without upper limit when many.
\* Pattern.match tries the items from the start of the string, backtracking
\* in the order Python's engine does, and need not reach the string's end.
\* ------------------------------------------------------------------------

NoMatch == [matched |-> FALSE]

CharEq(ic, a, b) == a = b \/ (ic /\ LowerChar(a) = LowerChar(b))

\* literal lit occurs in s at position pos
LitAt(ic, lit, s, pos) ==
  /\ pos + Len(lit) - 1 <= Len(s)
  /\ \A i \in DOMAIN lit : CharEq(ic, lit[i], s[pos + i - 1])

\* length of the longest run of characters of class cls in s from pos, at most lim
RECURSIVE RunLen(_, _, _, _)
RunLen(cls, s, pos, lim) ==
  IF lim = 0 \/ pos > Len(s) \/ s[pos] \notin cls THEN 0
  ELSE 1 + RunLen(cls, s, pos + 1, lim - 1)

SetGroup(groups, cap, v) == IF cap = 0 THEN groups ELSE [groups EXCEPT ![cap] = v]

RECURSIVE MatchItems(_, _, _, _, _)
RECURSIVE TryLit(_, _, _, _, _, _)
RECURSIVE TryCls(_, _, _, _, _, _)
RECURSIVE TryLen(_, _, _, _, _, _)

\* the items from index i on, against s from pos
MatchItems(pat, i, s, pos, groups) ==
  IF i > Len(pat.items) THEN [matched |-> TRUE, groups |-> groups, end |-> pos]
  ELSE IF pat.items[i].k = "lit" THEN TryLit(pat, i, s, pos, groups, 1)
  ELSE TryCls(pat, i, s, pos, groups, 1)

\* alternatives j.. of the literal item i, then the empty match when opt
TryLit(pat, i, s, pos, groups, j) ==
  LET it == pat.items[i] IN
  IF j > Len(it.alts)
  THEN IF it.opt THEN MatchItems(pat, i + 1, s, pos, groups) ELSE NoMatch
  ELSE IF LitAt(pat.ic, it.alts[j], s, pos)
       THEN LET n == Len(it.alts[j])
                r == MatchItems(pat, i + 1, s, pos + n,
                                SetGroup(groups, it.cap, SubSeq(s, pos, pos + n - 1)))
            IN  IF r.matched THEN r ELSE TryLit(pat, i, s, pos, groups, j + 1)
       ELSE TryLit(pat, i, s, pos, groups, j + 1)

\* alternatives j.. of the class item i, each from its longest run down
TryCls(pat, i, s, pos, groups, j) ==
  LET it == pat.items[i] IN
  IF j > Len(it.alts) THEN NoMatch
  ELSE LET lim == IF it.many THEN Len(s) ELSE it.max
           r   == TryLen(pat, i, s, pos, groups, <<j, RunLen(it.alts[j], s, pos, lim)>>)
       IN  IF r.matched THEN r ELSE TryCls(pat, i, s, pos, groups, j + 1)

\* run lengths jn[2], jn[2]-1, .. min of alternative jn[1] of the class item i
TryLen(pat, i, s, pos, groups, jn) ==
  LET it == pat.items[i]
      n  == jn[2]
  IN  IF n < it.min THEN NoMatch
      ELSE LET r == MatchItems(pat, i + 1, s, pos + n,
                               SetGroup(groups, it.cap, SubSeq(s, pos, pos + n - 1)))
           IN  IF r.matched THEN r ELSE TryLen(pat, i, s, pos, groups, <<jn[1], n - 1>>)

\* Pattern.fullmatch in place of Pattern.match: the whole string must match
MatchWhole(pat, s) ==
  LET r == MatchItems(pat, 1, s, 1, <<None, None>>)
  IN  IF r.matched /\ r.end = Len(s) + 1 THEN r ELSE NoMatch

\* Pattern.match(s): the groups of the first match at the start of s, or NoMatch
Match(pat, s) == MatchItems(pat, 1, s, 1, <<None, None>>)

\* language_patterns['zh'] (source lines 17..)
patterns_zh ==
  [week_pattern |->
    [ic |-> FALSE, items |-> <<
       [k |-> "lit", cap |-> 1, alts |-> <<<<"U+4E0A">>, <<"U+4E0B">>, <<"U+672C">>, <<"U+8FD9">>>>, opt |-> FALSE],
       [k |-> "lit", cap |-> 0, alts |-> <<<<"U+5468">>>>, opt |-> FALSE],
       [k |-> "lit", cap |-> 0, alts |-> <<<<"U+661F", "U+671F">>>>, opt |-> TRUE],
       [k |-> "cls", cap |-> 2, alts |-> <<{"U+4E00", "U+4E8C", "U+4E09", "U+56DB", "U+4E94", "U+516D", "U+65E5", "U+5929", "1", "2", "3", "4", "5", "6", "7"}>>, min |-> 1, max |-> 1, many |-> FALSE] >>],
    month_pattern |->
    [ic |-> FALSE, items |-> <<
       [k |-> "lit", cap |-> 1, alts |-> <<<<"U+4E0A">>, <<"U+4E0B">>, <<"U+672C">>, <<"U+8FD9">>>>, opt |-> FALSE],
       [k |-> "lit", cap |-> 0, alts |-> <<<<"U+4E2A">>>>, opt |-> TRUE],
       [k |-> "lit", cap |-> 0, alts |-> <<<<"U+6708">>>>, opt |-> FALSE],
       [k |-> "cls", cap |-> 2, alts |-> <<{"U+4E00", "U+4E8C", "U+4E09", "U+56DB", "U+4E94", "U+516D", "U+4E03", "U+516B", "U+4E5D", "U+5341"}, {"0", "1", "2", "3", "4", "5", "6", "7", "8", "9"}>>, min |-> 1, max |-> 1, many |-> TRUE],
       [k |-> "lit", cap |-> 0, alts |-> <<<<"U+53F7">>, <<"U+65E5">>>>, opt |-> FALSE] >>],
    relative_map |->
    <<"U+4E0A">> :> -1 @@ <<"U+4E0B">> :> 1 @@ <<"U+672C">> :> 0 @@ <<"U+8FD9">> :> 0,
    weekday_map |->
    <<"U+4E00">> :> 0 @@ <<"U+4E8C">> :> 1 @@ <<"U+4E09">> :> 2 @@ <<"U+56DB">> :> 3
    @@ <<"U+4E94">> :> 4 @@ <<"U+516D">> :> 5 @@ <<"U+65E5">> :> 6 @@ <<"U+5929">> :> 6
    @@ <<"1">> :> 0 @@ <<"2">> :> 1 @@ <<"3">> :> 2 @@ <<"4">> :> 3
    @@ <<"5">> :> 4 @@ <<"6">> :> 5 @@ <<"7">> :> 6,
    number_map |->
    <<"U+4E00">> :> 1 @@ <<"U+4E8C">> :> 2 @@ <<"U+4E09">> :> 3 @@ <<"U+56DB">> :> 4
    @@ <<"U+4E94">> :> 5 @@ <<"U+516D">> :> 6 @@ <<"U+4E03">> :> 7 @@ <<"U+516B">> :> 8
    @@ <<"U+4E5D">> :> 9 @@ <<"U+5341">> :> 10 @@ <<"U+5341", "U+4E00">> :> 11 @@ <<"U+5341", "U+4E8C">> :> 12
    @@ <<"U+5341", "U+4E09">> :> 13 @@ <<"U+5341", "U+56DB">> :> 14 @@ <<"U+5341", "U+4E94">> :> 15 @@ <<"U+5341", "U+516D">> :> 16
    @@ <<"U+5341", "U+4E03">> :> 17 @@ <<"U+5341", "U+516B">> :> 18 @@ <<"U+5341", "U+4E5D">> :> 19 @@ <<"U+4E8C", "U+5341">> :> 20
    @@ <<"U+4E8C", "U+5341", "U+4E00">> :> 21 @@ <<"U+4E8C", "U+5341", "U+4E8C">> :> 22 @@ <<"U+4E8C", "U+5341", "U+4E09">> :> 23 @@ <<"U+4E8C", "U+5341", "U+56DB">> :> 24
    @@ <<"U+4E8C", "U+5341", "U+4E94">> :> 25 @@ <<"U+4E8C", "U+5341", "U+516D">> :> 26 @@ <<"U+4E8C", "U+5341", "U+4E03">> :> 27 @@ <<"U+4E8C", "U+5341", "U+516B">> :> 28
    @@ <<"U+4E8C", "U+5341", "U+4E5D">> :> 29 @@ <<"U+4E09", "U+5341">> :> 30 @@ <<"U+4E09", "U+5341", "U+4E00">> :> 31 ]

\* language_patterns['en'] (source lines 29..)
patterns_en ==
  [week_pattern |->
    [ic |-> TRUE, items |-> <<
       [k |-> "lit", cap |-> 1, alts |-> <<<<"l", "a", "s", "t">>, <<"n", "e", "x", "t">>, <<"t", "h", "i", "s">>>>, opt |-> FALSE],
       [k |-> "cls", cap |-> 0, alts |-> <<Whitespace>>, min |-> 1, max |-> 1, many |-> TRUE],
       [k |-> "lit", cap |-> 2, alts |-> <<<<"m", "o", "n", "d", "a", "y">>, <<"t", "u", "e", "s", "d", "a", "y">>, <<"w", "e", "d", "n", "e", "s", "d", "a", "y">>, <<"t", "h", "u", "r", "s", "d", "a", "y">>, <<"f", "r", "i", "d", "a", "y">>, <<"s", "a", "t", "u", "r", "d", "a", "y">>, <<"s", "u", "n", "d", "a", "y">>>>, opt |-> FALSE] >>],
    month_pattern |->
    [ic |-> TRUE, items |-> <<
       [k |-> "lit", cap |-> 1, alts |-> <<<<"l", "a", "s", "t">>, <<"n", "e", "x", "t">>, <<"t", "h", "i", "s">>>>, opt |-> FALSE],
       [k |-> "cls", cap |-> 0, alts |-> <<Whitespace>>, min |-> 1, max |-> 1, many |-> TRUE],
       [k |-> "lit", cap |-> 0, alts |-> <<<<"m", "o", "n", "t", "h">>>>, opt |-> FALSE],
       [k |-> "cls", cap |-> 0, alts |-> <<Whitespace>>, min |-> 1, max |-> 1, many |-> TRUE],
       [k |-> "cls", cap |-> 2, alts |-> <<{"0", "1", "2", "3", "4", "5", "6", "7", "8", "9"}>>, min |-> 1, max |-> 2, many |-> FALSE],
       [k |-> "lit", cap |-> 0, alts |-> <<<<"s", "t">>, <<"n", "d">>, <<"r", "d">>, <<"t", "h">>>>, opt |-> TRUE] >>],
    relative_map |->
    <<"l", "a", "s", "t">> :> -1 @@ <<"n", "e", "x", "t">> :> 1 @@ <<"t", "h", "i", "s">> :> 0,
    weekday_map |->
    <<"m", "o", "n", "d", "a", "y">> :> 0 @@ <<"t", "u", "e", "s", "d", "a", "y">> :> 1 @@ <<"w", "e", "d", "n", "e", "s", "d", "a", "y">> :> 2 @@ <<"t", "h", "u", "r", "s", "d", "a", "y">> :> 3
    @@ <<"f", "r", "i", "d", "a", "y">> :> 4 @@ <<"s", "a", "t", "u", "r", "d", "a", "y">> :> 5 @@ <<"s", "u", "n", "d", "a", "y">> :> 6 ]

\* language_patterns['es'] (source lines 35..)
patterns_es ==
  [week_pattern |->
    [ic |-> TRUE, items |-> <<
       [k |-> "lit", cap |-> 1, alts |-> <<<<"p", "a", "s", "a", "d", "o">>, <<"p", "r", "U+00F3", "x", "i", "m", "o">>, <<"e", "s", "t", "e">>>>, opt |-> FALSE],
       [k |-> "cls", cap |-> 0, alts |-> <<Whitespace>>, min |-> 1, max |-> 1, many |-> TRUE],
       [k |-> "lit", cap |-> 2, alts |-> <<<<"l", "u", "n", "e", "s">>, <<"m", "a", "r", "t", "e", "s">>, <<"m", "i", "U+00E9", "r", "c", "o", "l", "e", "s">>, <<"j", "u", "e", "v", "e", "s">>, <<"v", "i", "e", "r", "n", "e", "s">>, <<"s", "U+00E1", "b", "a", "d", "o">>, <<"d", "o", "m", "i", "n", "g", "o">>>>, opt |-> FALSE] >>],
    month_pattern |->
    [ic |-> TRUE, items |-> <<
       [k |-> "lit", cap |-> 1, alts |-> <<<<"p", "a", "s", "a", "d", "o">>, <<"p", "r", "U+00F3", "x", "i", "m", "o">>, <<"e", "s", "t", "e">>>>, opt |-> FALSE],
       [k |-> "cls", cap |-> 0, alts |-> <<Whitespace>>, min |-> 1, max |-> 1, many |-> TRUE],
       [k |-> "lit", cap |-> 0, alts |-> <<<<"m", "e", "s">>>>, opt |-> FALSE],
       [k |-> "cls", cap |-> 0, alts |-> <<Whitespace>>, min |-> 1, max |-> 1, many |-> TRUE],
       [k |-> "cls", cap |-> 2, alts |-> <<{"0", "1", "2", "3", "4", "5", "6", "7", "8", "9"}>>, min |-> 1, max |-> 2, many |-> FALSE] >>],
    relative_map |->
    <<"p", "a", "s", "a", "d", "o">> :> -1 @@ <<"p", "r", "U+00F3", "x", "i", "m", "o">> :> 1 @@ <<"e", "s", "t", "e">> :> 0,
    weekday_map |->
    <<"l", "u", "n", "e", "s">> :> 0 @@ <<"m", "a", "r", "t", "e", "s">> :> 1 @@ <<"m", "i", "U+00E9", "r", "c", "o", "l", "e", "s">> :> 2 @@ <<"j", "u", "e", "v", "e", "s">> :> 3
    @@ <<"v", "i", "e", "r", "n", "e", "s">> :> 4 @@ <<"s", "U+00E1", "b", "a", "d", "o">> :> 5 @@ <<"d", "o", "m", "i", "n", "g", "o">> :> 6 ]

\* language_patterns['fr'] (source lines 41..)
patterns_fr ==
  [week_pattern |->
    [ic |-> TRUE, items |-> <<
       [k |-> "lit", cap |-> 1, alts |-> <<<<"d", "e", "r", "n", "i", "e", "r">>, <<"p", "r", "o", "c", "h", "a", "i", "n">>, <<"c", "e">>>>, opt |-> FALSE],
       [k |-> "cls", cap |-> 0, alts |-> <<Whitespace>>, min |-> 1, max |-> 1, many |-> TRUE],
       [k |-> "lit", cap |-> 2, alts |-> <<<<"l", "u", "n", "d", "i">>, <<"m", "a", "r", "d", "i">>, <<"m", "e", "r", "c", "r", "e", "d", "i">>, <<"j", "e", "u", "d", "i">>, <<"v", "e", "n", "d", "r", "e", "d", "i">>, <<"s", "a", "m", "e", "d", "i">>, <<"d", "i", "m", "a", "n", "c", "h", "e">>>>, opt |-> FALSE] >>],
    month_pattern |->
    [ic |-> TRUE, items |-> <<
       [k |-> "lit", cap |-> 1, alts |-> <<<<"d", "e", "r", "n", "i", "e", "r">>, <<"p", "r", "o", "c", "h", "a", "i", "n">>, <<"c", "e">>>>, opt |-> FALSE],
       [k |-> "cls", cap |-> 0, alts |-> <<Whitespace>>, min |-> 1, max |-> 1, many |-> TRUE],
       [k |-> "lit", cap |-> 0, alts |-> <<<<"m", "o", "i", "s">>>>, opt |-> FALSE],
       [k |-> "cls", cap |-> 0, alts |-> <<Whitespace>>, min |-> 1, max |-> 1, many |-> TRUE],
       [k |-> "cls", cap |-> 2, alts |-> <<{"0", "1", "2", "3", "4", "5", "6", "7", "8", "9"}>>, min |-> 1, max |-> 2, many |-> FALSE] >>],
    relative_map |->
    <<"d", "e", "r", "n", "i", "e", "r">> :> -1 @@ <<"p", "r", "o", "c", "h", "a", "i", "n">> :> 1 @@ <<"c", "e">> :> 0,
    weekday_map |->
    <<"l", "u", "n", "d", "i">> :> 0 @@ <<"m", "a", "r", "d", "i">> :> 1 @@ <<"m", "e", "r", "c", "r", "e", "d", "i">> :> 2 @@ <<"j", "e", "u", "d", "i">> :> 3
    @@ <<"v", "e", "n", "d", "r", "e", "d", "i">> :> 4 @@ <<"s", "a", "m", "e", "d", "i">> :> 5 @@ <<"d", "i", "m", "a", "n", "c", "h", "e">> :> 6 ]

\* language_patterns['de'] (source lines 47..)
patterns_de ==
  [week_pattern |->
    [ic |-> TRUE, items |-> <<
       [k |-> "lit", cap |-> 1, alts |-> <<<<"l", "e", "t", "z", "t", "e", "n">>, <<"n", "U+00E4", "c", "h", "s", "t", "e", "n">>, <<"d", "i", "e", "s", "e", "n">>>>, opt |-> FALSE],
       [k |-> "cls", cap |-> 0, alts |-> <<Whitespace>>, min |-> 1, max |-> 1, many |-> TRUE],
       [k |-> "lit", cap |-> 2, alts |-> <<<<"m", "o", "n", "t", "a", "g">>, <<"d", "i", "e", "n", "s", "t", "a", "g">>, <<"m", "i", "t", "t", "w", "o", "c", "h">>, <<"d", "o", "n", "n", "e", "r", "s", "t", "a", "g">>, <<"f", "r", "e", "i", "t", "a", "g">>, <<"s", "a", "m", "s", "t", "a", "g">>, <<"s", "o", "n", "n", "t", "a", "g">>>>, opt |-> FALSE] >>],
    month_pattern |->
    [ic |-> TRUE, items |-> <<
       [k |-> "lit", cap |-> 1, alts |-> <<<<"l", "e", "t", "z", "t", "e", "n">>, <<"n", "U+00E4", "c", "h", "s", "t", "e", "n">>, <<"d", "i", "e", "s", "e", "n">>>>, opt |-> FALSE],
       [k |-> "cls", cap |-> 0, alts |-> <<Whitespace>>, min |-> 1, max |-> 1, many |-> TRUE],
       [k |-> "lit", cap |-> 0, alts |-> <<<<"m", "o", "n", "a", "t">>>>, opt |-> FALSE],
       [k |-> "cls", cap |-> 0, alts |-> <<Whitespace>>, min |-> 1, max |-> 1, many |-> TRUE],
       [k |-> "cls", cap |-> 2, alts |-> <<{"0", "1", "2", "3", "4", "5", "6", "7", "8", "9"}>>, min |-> 1, max |-> 2, many |-> FALSE] >>],
    relative_map |->
    <<"l", "e", "t", "z", "t", "e", "n">> :> -1 @@ <<"n", "U+00E4", "c", "h", "s", "t", "e", "n">> :> 1 @@ <<"d", "i", "e", "s", "e", "n">> :> 0,
    weekday_map |->
    <<"m", "o", "n", "t", "a", "g">> :> 0 @@ <<"d", "i", "e", "n", "s", "t", "a", "g">> :> 1 @@ <<"m", "i", "t", "t", "w", "o", "c", "h">> :> 2 @@ <<"d", "o", "n", "n", "e", "r", "s", "t", "a", "g">> :> 3
    @@ <<"f", "r", "e", "i", "t", "a", "g">> :> 4 @@ <<"s", "a", "m", "s", "t", "a", "g">> :> 5 @@ <<"s", "o", "n", "n", "t", "a", "g">> :> 6 ]

\* language_patterns['ja'] (source lines 53..)
patterns_ja ==
  [week_pattern |->
    [ic |-> FALSE, items |-> <<
       [k |-> "lit", cap |-> 1, alts |-> <<<<"U+5148">>, <<"U+6765">>, <<"U+4ECA">>>>, opt |-> FALSE],
       [k |-> "lit", cap |-> 0, alts |-> <<<<"U+9031">>>>, opt |-> FALSE],
       [k |-> "lit", cap |-> 0, alts |-> <<<<"U+306E">>>>, opt |-> TRUE],
       [k |-> "lit", cap |-> 2, alts |-> <<<<"U+6708">>, <<"U+706B">>, <<"U+6C34">>, <<"U+6728">>, <<"U+91D1">>, <<"U+571F">>, <<"U+65E5">>>>, opt |-> FALSE],
       [k |-> "lit", cap |-> 0, alts |-> <<<<"U+66DC">>>>, opt |-> FALSE],
       [k |-> "lit", cap |-> 0, alts |-> <<<<"U+65E5">>>>, opt |-> TRUE] >>],
    month_pattern |->
    [ic |-> FALSE, items |-> <<
       [k |-> "lit", cap |-> 1, alts |-> <<<<"U+5148">>, <<"U+6765">>, <<"U+4ECA">>>>, opt |-> FALSE],
       [k |-> "lit", cap |-> 0, alts |-> <<<<"U+6708">>>>, opt |-> FALSE],
       [k |-> "cls", cap |-> 2, alts |-> <<{"0", "1", "2", "3", "4", "5", "6", "7", "8", "9"}>>, min |-> 1, max |-> 2, many |-> FALSE],
       [k |-> "lit", cap |-> 0, alts |-> <<<<"U+65E5">>>>, opt |-> FALSE] >>],
    relative_map |->
    <<"U+5148">> :> -1 @@ <<"U+6765">> :> 1 @@ <<"U+4ECA">> :> 0,
    weekday_map |->
    <<"U+6708">> :> 0 @@ <<"U+706B">> :> 1 @@ <<"U+6C34">> :> 2 @@ <<"U+6728">> :> 3
    @@ <<"U+91D1">> :> 4 @@ <<"U+571F">> :> 5 @@ <<"U+65E5">> :> 6 ]

\* language_patterns['ru'] (source lines 59..)
patterns_ru ==
  [week_pattern |->
    [ic |-> TRUE, items |-> <<
       [k |-> "lit", cap |-> 1, alts |-> <<<<"U+043F", "U+0440", "U+043E", "U+0448", "U+043B", "U+044B", "U+0439">>, <<"U+0441", "U+043B", "U+0435", "U+0434", "U+0443", "U+044E", "U+0449", "U+0438", "U+0439">>, <<"U+044D", "U+0442", "U+043E", "U+0442">>>>, opt |-> FALSE],
       [k |-> "cls", cap |-> 0, alts |-> <<Whitespace>>, min |-> 1, max |-> 1, many |-> TRUE],
       [k |-> "lit", cap |-> 2, alts |-> <<<<"U+043F", "U+043E", "U+043D", "U+0435", "U+0434", "U+0435", "U+043B", "U+044C", "U+043D", "U+0438", "U+043A">>, <<"U+0432", "U+0442", "U+043E", "U+0440", "U+043D", "U+0438", "U+043A">>, <<"U+0441", "U+0440", "U+0435", "U+0434", "U+0430">>, <<"U+0447", "U+0435", "U+0442", "U+0432", "U+0435", "U+0440", "U+0433">>, <<"U+043F", "U+044F", "U+0442", "U+043D", "U+0438", "U+0446", "U+0430">>, <<"U+0441", "U+0443", "U+0431", "U+0431", "U+043E", "U+0442", "U+0430">>, <<"U+0432", "U+043E", "U+0441", "U+043A", "U+0440", "U+0435", "U+0441", "U+0435", "U+043D", "U+044C", "U+0435">>>>, opt |-> FALSE] >>],
    month_pattern |->
    [ic |-> TRUE, items |-> <<
       [k |-> "lit", cap |-> 1, alts |-> <<<<"U+043F", "U+0440", "U+043E", "U+0448", "U+043B", "U+044B", "U+0439">>, <<"U+0441", "U+043B", "U+0435", "U+0434", "U+0443", "U+044E", "U+0449", "U+0438", "U+0439">>, <<"U+044D", "U+0442", "U+043E", "U+0442">>>>, opt |-> FALSE],
       [k |-> "cls", cap |-> 0, alts |-> <<Whitespace>>, min |-> 1, max |-> 1, many |-> TRUE],
       [k |-> "lit", cap |-> 0, alts |-> <<<<"U+043C", "U+0435", "U+0441", "U+044F", "U+0446">>>>, opt |-> FALSE],
       [k |-> "cls", cap |-> 0, alts |-> <<Whitespace>>, min |-> 1, max |-> 1, many |-> TRUE],
       [k |-> "cls", cap |-> 2, alts |-> <<{"0", "1", "2", "3", "4", "5", "6", "7", "8", "9"}>>, min |-> 1, max |-> 2, many |-> FALSE] >>],
    relative_map |->
    <<"U+043F", "U+0440", "U+043E", "U+0448", "U+043B", "U+044B", "U+0439">> :> -1 @@ <<"U+0441", "U+043B", "U+0435", "U+0434", "U+0443", "U+044E", "U+0449", "U+0438", "U+0439">> :> 1 @@ <<"U+044D", "U+0442", "U+043E", "U+0442">> :> 0,
    weekday_map |->
    <<"U+043F", "U+043E", "U+043D", "U+0435", "U+0434", "U+0435", "U+043B", "U+044C", "U+043D", "U+0438", "U+043A">> :> 0 @@ <<"U+0432", "U+0442", "U+043E", "U+0440", "U+043D", "U+0438", "U+043A">> :> 1 @@ <<"U+0441", "U+0440", "U+0435", "U+0434", "U+0430">> :> 2 @@ <<"U+0447", "U+0435", "U+0442", "U+0432", "U+0435", "U+0440", "U+0433">> :> 3
    @@ <<"U+043F", "U+044F", "U+0442", "U+043D", "U+0438", "U+0446", "U+0430">> :> 4 @@ <<"U+0441", "U+0443", "U+0431", "U+0431", "U+043E", "U+0442", "U+0430">> :> 5 @@ <<"U+0432", "U+043E", "U+0441", "U+043A", "U+0440", "U+0435", "U+0441", "U+0435", "U+043D", "U+044C", "U+0435">> :> 6 ]

\* language_patterns['it'] (source lines 65..)
patterns_it ==
  [week_pattern |->
    [ic |-> TRUE, items |-> <<
       [k |-> "lit", cap |-> 1, alts |-> <<<<"s", "c", "o", "r", "s", "o">>, <<"p", "r", "o", "s", "s", "i", "m", "o">>, <<"q", "u", "e", "s", "t", "o">>>>, opt |-> FALSE],
       [k |-> "cls", cap |-> 0, alts |-> <<Whitespace>>, min |-> 1, max |-> 1, many |-> TRUE],
       [k |-> "lit", cap |-> 2, alts |-> <<<<"l", "u", "n", "e", "d", "U+00EC">>, <<"m", "a", "r", "t", "e", "d", "U+00EC">>, <<"m", "e", "r", "c", "o", "l", "e", "d", "U+00EC">>, <<"g", "i", "o", "v", "e", "d", "U+00EC">>, <<"v", "e", "n", "e", "r", "d", "U+00EC">>, <<"s", "a", "b", "a", "t", "o">>, <<"d", "o", "m", "e", "n", "i", "c", "a">>>>, opt |-> FALSE] >>],
    month_pattern |->
    [ic |-> TRUE, items |-> <<
       [k |-> "lit", cap |-> 1, alts |-> <<<<"s", "c", "o", "r", "s", "o">>, <<"p", "r", "o", "s", "s", "i", "m", "o">>, <<"q", "u", "e", "s", "t", "o">>>>, opt |-> FALSE],
       [k |-> "cls", cap |-> 0, alts |-> <<Whitespace>>, min |-> 1, max |-> 1, many |-> TRUE],
       [k |-> "lit", cap |-> 0, alts |-> <<<<"m", "e", "s", "e">>>>, opt |-> FALSE],
       [k |-> "cls", cap |-> 0, alts |-> <<Whitespace>>, min |-> 1, max |-> 1, many |-> TRUE],
       [k |-> "cls", cap |-> 2, alts |-> <<{"0", "1", "2", "3", "4", "5", "6", "7", "8", "9"}>>, min |-> 1, max |-> 2, many |-> FALSE] >>],
    relative_map |->
    <<"s", "c", "o", "r", "s", "o">> :> -1 @@ <<"p", "r", "o", "s", "s", "i", "m", "o">> :> 1 @@ <<"q", "u", "e", "s", "t", "o">> :> 0,
    weekday_map |->
    <<"l", "u", "n", "e", "d", "U+00EC">> :> 0 @@ <<"m", "a", "r", "t", "e", "d", "U+00EC">> :> 1 @@ <<"m", "e", "r", "c", "o", "l", "e", "d", "U+00EC">> :> 2 @@ <<"g", "i", "o", "v", "e", "d", "U+00EC">> :> 3
    @@ <<"v", "e", "n", "e", "r", "d", "U+00EC">> :> 4 @@ <<"s", "a", "b", "a", "t", "o">> :> 5 @@ <<"d", "o", "m", "e", "n", "i", "c", "a">> :> 6 ]

\* language_patterns['pt'] (source lines 71..)
patterns_pt ==
  [week_pattern |->
    [ic |-> TRUE, items |-> <<
       [k |-> "lit", cap |-> 1, alts |-> <<<<"p", "a", "s", "s", "a", "d", "o">>, <<"p", "r", "U+00F3", "x", "i", "m", "o">>, <<"e", "s", "t", "e">>>>, opt |-> FALSE],
       [k |-> "cls", cap |-> 0, alts |-> <<Whitespace>>, min |-> 1, max |-> 1, many |-> TRUE],
       [k |-> "lit", cap |-> 2, alts |-> <<<<"s", "e", "g", "u", "n", "d", "a">>, <<"t", "e", "r", "U+00E7", "a">>, <<"q", "u", "a", "r", "t", "a">>, <<"q", "u", "i", "n", "t", "a">>, <<"s", "e", "x", "t", "a">>, <<"s", "U+00E1", "b", "a", "d", "o">>, <<"d", "o", "m", "i", "n", "g", "o">>>>, opt |-> FALSE] >>],
    month_pattern |->
    [ic |-> TRUE, items |-> <<
       [k |-> "lit", cap |-> 1, alts |-> <<<<"p", "a", "s", "s", "a", "d", "o">>, <<"p", "r", "U+00F3", "x", "i", "m", "o">>, <<"e", "s", "t", "e">>>>, opt |-> FALSE],
       [k |-> "cls", cap |-> 0, alts |-> <<Whitespace>>, min |-> 1, max |-> 1, many |-> TRUE],
       [k |-> "lit", cap |-> 0, alts |-> <<<<"m", "U+00EA", "s">>>>, opt |-> FALSE],
       [k |-> "cls", cap |-> 0, alts |-> <<Whitespace>>, min |-> 1, max |-> 1, many |-> TRUE],
       [k |-> "cls", cap |-> 2, alts |-> <<{"0", "1", "2", "3", "4", "5", "6", "7", "8", "9"}>>, min |-> 1, max |-> 2, many |-> FALSE] >>],
    relative_map |->
    <<"p", "a", "s", "s", "a", "d", "o">> :> -1 @@ <<"p", "r", "U+00F3", "x", "i", "m", "o">> :> 1 @@ <<"e", "s", "t", "e">> :> 0,
    weekday_map |->
    <<"s", "e", "g", "u", "n", "d", "a">> :> 0 @@ <<"t", "e", "r", "U+00E7", "a">> :> 1 @@ <<"q", "u", "a", "r", "t", "a">> :> 2 @@ <<"q", "u", "i", "n", "t", "a">> :> 3
    @@ <<"s", "e", "x", "t", "a">> :> 4 @@ <<"s", "U+00E1", "b", "a", "d", "o">> :> 5 @@ <<"d", "o", "m", "i", "n", "g", "o">> :> 6 ]

\* language_patterns['ko'] (source lines 77..)
patterns_ko ==
  [week_pattern |->
    [ic |-> FALSE, items |-> <<
       [k |-> "lit", cap |-> 1, alts |-> <<<<"U+C9C0", "U+B09C">>, <<"U+B2E4", "U+C74C">>, <<"U+C774", "U+BC88">>>>, opt |-> FALSE],
       [k |-> "cls", cap |-> 0, alts |-> <<Whitespace>>, min |-> 0, max |-> 0, many |-> TRUE],
       [k |-> "lit", cap |-> 0, alts |-> <<<<"U+C8FC">>>>, opt |-> TRUE],
       [k |-> "cls", cap |-> 0, alts |-> <<Whitespace>>, min |-> 0, max |-> 0, many |-> TRUE],
       [k |-> "lit", cap |-> 2, alts |-> <<<<"U+C6D4">>, <<"U+D654">>, <<"U+C218">>, <<"U+BAA9">>, <<"U+AE08">>, <<"U+D1A0">>, <<"U+C77C">>>>, opt |-> FALSE],
       [k |-> "lit", cap |-> 0, alts |-> <<<<"U+C694", "U+C77C">>>>, opt |-> FALSE] >>],
    month_pattern |->
    [ic |-> FALSE, items |-> <<
       [k |-> "lit", cap |-> 1, alts |-> <<<<"U+C9C0", "U+B09C">>, <<"U+B2E4", "U+C74C">>, <<"U+C774", "U+BC88">>>>, opt |-> FALSE],
       [k |-> "cls", cap |-> 0, alts |-> <<Whitespace>>, min |-> 0, max |-> 0, many |-> TRUE],
       [k |-> "lit", cap |-> 0, alts |-> <<<<"U+B2EC">>>>, opt |-> FALSE],
       [k |-> "cls", cap |-> 0, alts |-> <<Whitespace>>, min |-> 0, max |-> 0, many |-> TRUE],
       [k |-> "cls", cap |-> 2, alts |-> <<{"0", "1", "2", "3", "4", "5", "6", "7", "8", "9"}>>, min |-> 1, max |-> 2, many |-> FALSE],
       [k |-> "lit", cap |-> 0, alts |-> <<<<"U+C77C">>>>, opt |-> FALSE] >>],
    relative_map |->
    <<"U+C9C0", "U+B09C">> :> -1 @@ <<"U+B2E4", "U+C74C">> :> 1 @@ <<"U+C774", "U+BC88">> :> 0,
    weekday_map |->
    <<"U+C6D4">> :> 0 @@ <<"U+D654">> :> 1 @@ <<"U+C218">> :> 2 @@ <<"U+BAA9">> :> 3
    @@ <<"U+AE08">> :> 4 @@ <<"U+D1A0">> :> 5 @@ <<"U+C77C">> :> 6 ]

\* the table with Sunday lost from the Italian weekday map
LanguagePatternsNoSunday ==
  << [key |-> <<"z", "h">>, value |-> patterns_zh],
     [key |-> <<"e", "n">>, value |-> patterns_en],
     [key |-> <<"e", "s">>, value |-> patterns_es],
     [key |-> <<"f", "r">>, value |-> patterns_fr],
     [key |-> <<"d", "e">>, value |-> patterns_de],
     [key |-> <<"j", "a">>, value |-> patterns_ja],
     [key |-> <<"r", "u">>, value |-> patterns_ru],
     [key |-> <<"i", "t">>, value |->
        [patterns_it EXCEPT !.weekday_map =
           [w \in DOMAIN patterns_it.weekday_map \ {<<"d", "o", "m", "e", "n", "i", "c", "a">>}
              |-> patterns_it.weekday_map[w]]]],
     [key |-> <<"p", "t">>, value |-> patterns_pt],
     [key |-> <<"k", "o">>, value |-> patterns_ko] >>

\* self.language_patterns as __init__ builds it, in insertion order
LanguagePatterns ==
  << [key |-> <<"z", "h">>, value |-> patterns_zh],
     [key |-> <<"e", "n">>, value |-> patterns_en],
     [key |-> <<"e", "s">>, value |-> patterns_es],
     [key |-> <<"f", "r">>, value |-> patterns_fr],
     [key |-> <<"d", "e">>, value |-> patterns_de],
     [key |-> <<"j", "a">>, value |-> patterns_ja],
     [key |-> <<"r", "u">>, value |-> patterns_ru],
     [key |-> <<"i", "t">>, value |-> patterns_it],
     [key |-> <<"p", "t">>, value |-> patterns_pt],
     [key |-> <<"k", "o">>, value |-> patterns_ko] >>

\* self.language_code_map as __init__ builds it, in insertion order
LanguageCodeMap ==
  << [key |-> <<"z", "h">>, value |-> <<<<"z", "h">>, <<"z", "h", "-", "c", "n">>, <<"z", "h", "-", "h", "a", "n", "s">>, <<"z", "h", "-", "t", "w">>, <<"z", "h", "-", "h", "a", "n", "t">>>>],
     [key |-> <<"e", "n">>, value |-> <<<<"e", "n">>, <<"e", "n", "-", "u", "s">>, <<"e", "n", "-", "g", "b">>, <<"e", "n", "-", "a", "u">>>>],
     [key |-> <<"e", "s">>, value |-> <<<<"e", "s">>, <<"e", "s", "-", "e", "s">>, <<"e", "s", "-", "m", "x">>, <<"e", "s", "-", "a", "r">>>>],
     [key |-> <<"f", "r">>, value |-> <<<<"f", "r">>, <<"f", "r", "-", "f", "r">>, <<"f", "r", "-", "c", "a">>>>],
     [key |-> <<"d", "e">>, value |-> <<<<"d", "e">>, <<"d", "e", "-", "d", "e">>, <<"d", "e", "-", "a", "t">>>>],
     [key |-> <<"i", "t">>, value |-> <<<<"i", "t">>, <<"i", "t", "-", "i", "t">>>>],
     [key |-> <<"p", "t">>, value |-> <<<<"p", "t">>, <<"p", "t", "-", "p", "t">>, <<"p", "t", "-", "b", "r">>>>],
     [key |-> <<"r", "u">>, value |-> <<<<"r", "u">>, <<"r", "u", "-", "r", "u">>>>],
     [key |-> <<"j", "a">>, value |-> <<<<"j", "a">>, <<"j", "a", "-", "j", "p">>>>],
     [key |-> <<"k", "o">>, value |-> <<<<"k", "o">>, <<"k", "o", "-", "k", "r">>>>] >>
\* ------------------------------------------------------------------------
\* dict: a Python dict whose iteration order matters is the sequence of its
\* [key, value] entries in insertion order
\* ------------------------------------------------------------------------

DictHas(d, k) == \E i \in DOMAIN d : d[i].key = k

DictGet(d, k) == d[CHOOSE i \in DOMAIN d : d[i].key = k].value

\* ------------------------------------------------------------------------
\* datetime, timedelta, relativedelta
\* ------------------------------------------------------------------------

MINYEAR == 1

MAXYEAR == 9999

IsLeap(y) == y % 4 = 0 /\ (y % 100 # 0 \/ y % 400 = 0)

DaysInMonth(y, m) ==
  IF m = 2 THEN (IF IsLeap(y) THEN 29 ELSE 28)
  ELSE IF m \in {4, 6, 9, 11} THEN 30 ELSE 31

\* days of the months of year y before month m
RECURSIVE DaysBeforeMonth(_, _)
DaysBeforeMonth(y, m) ==
  IF m = 1 THEN 0 ELSE DaysBeforeMonth(y, m - 1) + DaysInMonth(y, m - 1)

\* days before January 1st of year y
DaysBeforeYear(y) ==
  LET p == y - 1 IN p * 365 + (p \div 4) - (p \div 100) + (p \div 400)

\* date.toordinal(): 0001-01-01 is day 1
ToOrdinal(dt) == DaysBeforeYear(dt.year) + DaysBeforeMonth(dt.year, dt.month) + dt.day

MaxOrdinal == DaysBeforeYear(MAXYEAR + 1)

RECURSIVE MonthOfDay(_, _, _)
\* the month of year y holding its n-th day (n from 0), from month m on
MonthOfDay(y, m, n) ==
  IF n < DaysInMonth(y, m) THEN <<m, n + 1>>
  ELSE MonthOfDay(y, m + 1, n - DaysInMonth(y, m))

\* date.fromordinal(n): <<year, month, day>>
FromOrdinal(n) ==
  LET n0   == n - 1
      n400 == n0 \div 146097
      r400 == n0 % 146097
      n100 == r400 \div 36524
      r100 == r400 % 36524
      n4   == r100 \div 1461
      r4   == r100 % 1461
      n1   == r4 \div 365
      r1   == r4 % 365
      y    == n400 * 400 + n100 * 100 + n4 * 4 + n1 + 1
  IN  IF n1 = 4 \/ n100 = 4 THEN <<y - 1, 12, 31>>
      ELSE LET md == MonthOfDay(y, 1, r1) IN <<y, md[1], md[2]>>

\* datetime.weekday(): Monday is 0
Weekday(dt) == (ToOrdinal(dt) + 6) % 7

Raise(e) == [kind |-> "raise", exc |-> e]

IsDatetime(v) == v.kind = "datetime"

\* datetime + timedelta(days=n): the time of day is kept; a date outside
\* MINYEAR..MAXYEAR raises OverflowError
AddDays(dt, n) ==
  LET o == ToOrdinal(dt) + n IN
  IF o < 1 \/ o > MaxOrdinal THEN Raise("OverflowError")
  ELSE LET ymd == FromOrdinal(o)
       IN  [dt EXCEPT !.year = ymd[1], !.month = ymd[2], !.day = ymd[3]]

\* datetime.replace(day=d): ValueError when the month has no day d
ReplaceDay(dt, d) ==
  IF d < 1 \/ d > DaysInMonth(dt.year, dt.month) THEN Raise("ValueError")
  ELSE [dt EXCEPT !.day = d]

\* datetime + relativedelta(months=n), n in -1..1: the month is shifted, the
\* year rolls over, the day is cut to the shifted month's length; a year
\* outside MINYEAR..MAXYEAR raises ValueError
AddMonths(dt, n) ==
  LET m0 == dt.month + n
      y  == IF m0 > 12 THEN dt.year + 1 ELSE IF m0 < 1 THEN dt.year - 1 ELSE dt.year
      m  == IF m0 > 12 THEN m0 - 12 ELSE IF m0 < 1 THEN m0 + 12 ELSE m0
      d  == IF DaysInMonth(y, m) < dt.day THEN DaysInMonth(y, m) ELSE dt.day
  IN  IF y < MINYEAR \/ y > MAXYEAR THEN Raise("ValueError")
      ELSE [dt EXCEPT !.year = y, !.month = m, !.day = d]

\* ------------------------------------------------------------------------
\* CompoundRelativeParser
\* ------------------------------------------------------------------------

\* _get_language_key(language_code) over the alias table code_map
RECURSIVE FirstKeyWith(_, _, _)
FirstKeyWith(code_map, code, i) ==
  IF i > Len(code_map) THEN None
  ELSE IF \E j \in DOMAIN code_map[i].value : code_map[i].value[j] = code
       THEN code_map[i].key
       ELSE FirstKeyWith(code_map, code, i + 1)

get_language_key(code_map, language_code) ==
  FirstKeyWith(code_map, Lower(language_code), 1)

\* an int where None may stand instead
Some(n) == [kind |-> "int", value |-> n]

\* _parse_day_number(day_str, lang_key): an int, or None
parse_day_number(patterns, day_str, lang_key) ==
  IF IsDigits(day_str) THEN Some(IntOf(day_str))
  ELSE IF lang_key = <<"z", "h">> /\ "number_map" \in DOMAIN DictGet(patterns, lang_key)
       THEN LET number_map == DictGet(patterns, lang_key).number_map
            IN  IF day_str \in DOMAIN number_map THEN Some(number_map[day_str]) ELSE None
       ELSE None

\* _calculate_month_date without the clamp: a day the month lacks gives None
calculate_month_date_unclamped(base_time, month_offset, day) ==
  LET shifted == AddMonths(base_time, month_offset)
      direct  == IF IsDatetime(shifted) THEN ReplaceDay(shifted, day) ELSE shifted
  IN  IF IsDatetime(direct) THEN direct ELSE None

\* _calculate_month_date(base_time, month_offset, day)
calculate_month_date(base_time, month_offset, day) ==
  LET shifted == AddMonths(base_time, month_offset)
      direct  == IF IsDatetime(shifted) THEN ReplaceDay(shifted, day) ELSE shifted
  IN  IF IsDatetime(direct) THEN direct
      ELSE \* except ValueError: the last day of the target month
           IF ~IsDatetime(shifted) THEN None
           ELSE LET first == ReplaceDay(shifted, 1)
                    next  == AddMonths(first, 1)
                    last  == IF IsDatetime(next) THEN AddDays(next, -1) ELSE next
                IN  IF ~IsDatetime(last) THEN None
                    ELSE IF day <= last.day THEN ReplaceDay(last, day) ELSE last

\* _calculate_target_date with the difference of weekdays taken modulo 7
calculate_target_date_normalized(base_time, week_offset, target_weekday) ==
  LET current_weekday   == Weekday(base_time)
      days_to_target    == (target_weekday - current_weekday) % 7
      total_days_offset == days_to_target + (week_offset * 7)
  IN  AddDays(base_time, total_days_offset)

\* _calculate_target_date(base_time, week_offset, target_weekday)
calculate_target_date(base_time, week_offset, target_weekday) ==
  LET current_weekday   == Weekday(base_time)
      days_to_target    == target_weekday - current_weekday
      total_days_offset == days_to_target + (week_offset * 7)
  IN  AddDays(base_time, total_days_offset)

\* _parse_with_language without the check of the day against 1..31
parse_with_language_any_day(patterns, date_string, base_time, lang_key) ==
  IF ~DictHas(patterns, lang_key) THEN None
  ELSE
    LET lang_config  == DictGet(patterns, lang_key)
        relative_map == lang_config.relative_map
        mmatch == IF "month_pattern" \in DOMAIN lang_config
                  THEN Match(lang_config.month_pattern, Strip(date_string))
                  ELSE NoMatch
    IN  IF mmatch.matched
        THEN LET relative_indicator == Lower(mmatch.groups[1])
                 day_str            == mmatch.groups[2]
                 day                == parse_day_number(patterns, day_str, lang_key)
             IN  IF relative_indicator \notin DOMAIN relative_map THEN None
                 ELSE IF day = None THEN None
                 ELSE calculate_month_date(base_time, relative_map[relative_indicator],
                                           day.value)
        ELSE IF "week_pattern" \in DOMAIN lang_config
        THEN LET weekday_map == lang_config.weekday_map
                 wmatch      == Match(lang_config.week_pattern, Strip(date_string))
             IN  IF ~wmatch.matched THEN None
                 ELSE LET relative_indicator == Lower(wmatch.groups[1])
                          weekday_name       == Lower(wmatch.groups[2])
                      IN  IF relative_indicator \notin DOMAIN relative_map
                             \/ weekday_name \notin DOMAIN weekday_map
                          THEN None
                          ELSE calculate_target_date(base_time,
                                                     relative_map[relative_indicator],
                                                     weekday_map[weekday_name])
        ELSE None

\* _parse_with_language(date_string, base_time, lang_key)
parse_with_language(patterns, date_string, base_time, lang_key) ==
  IF ~DictHas(patterns, lang_key) THEN None
  ELSE
    LET lang_config  == DictGet(patterns, lang_key)
        relative_map == lang_config.relative_map
        mmatch == IF "month_pattern" \in DOMAIN lang_config
                  THEN Match(lang_config.month_pattern, Strip(date_string))
                  ELSE NoMatch
    IN  IF mmatch.matched
        THEN LET relative_indicator == Lower(mmatch.groups[1])
                 day_str            == mmatch.groups[2]
                 day                == parse_day_number(patterns, day_str, lang_key)
             IN  IF relative_indicator \notin DOMAIN relative_map THEN None
                 ELSE IF day = None THEN None
                 ELSE IF day.value < 1 \/ day.value > 31 THEN None
                 ELSE calculate_month_date(base_time, relative_map[relative_indicator],
                                           day.value)
        ELSE IF "week_pattern" \in DOMAIN lang_config
        THEN LET weekday_map == lang_config.weekday_map
                 wmatch      == Match(lang_config.week_pattern, Strip(date_string))
             IN  IF ~wmatch.matched THEN None
                 ELSE LET relative_indicator == Lower(wmatch.groups[1])
                          weekday_name       == Lower(wmatch.groups[2])
                      IN  IF relative_indicator \notin DOMAIN relative_map
                             \/ weekday_name \notin DOMAIN weekday_map
                          THEN None
                          ELSE calculate_target_date(base_time,
                                                     relative_map[relative_indicator],
                                                     weekday_map[weekday_name])
        ELSE None

\* a loop that returns what its first language gives, None included
ScanParseFirstOnly(patterns, date_string, base_time, i) ==
  IF i > Len(patterns) THEN None
  ELSE parse_with_language(patterns, date_string, base_time, patterns[i].key)

\* the loop of parse over language_patterns from entry i: the first result
\* that is not None; an exception leaves the loop
RECURSIVE ScanParse(_, _, _, _)
ScanParse(patterns, date_string, base_time, i) ==
  IF i > Len(patterns) THEN None
  ELSE LET result == parse_with_language(patterns, date_string, base_time, patterns[i].key)
       IN  IF result # None THEN result
           ELSE ScanParse(patterns, date_string, base_time, i + 1)

\* parse that goes on to the scan when the hinted language gives None
parse_then_scan(patterns, code_map, date_string, base_time, language) ==
  LET lang_key == IF language # None /\ language # <<>>
                  THEN get_language_key(code_map, language)
                  ELSE None
      hinted   == IF lang_key # None
                  THEN parse_with_language(patterns, date_string, base_time, lang_key)
                  ELSE None
  IN  IF hinted # None THEN hinted
      ELSE ScanParse(patterns, date_string, base_time, 1)

\* parse(date_string, base_time, language), base_time given
parse(patterns, code_map, date_string, base_time, language) ==
  LET lang_key == IF language # None /\ language # <<>>
                  THEN get_language_key(code_map, language)
                  ELSE None
  IN  IF lang_key # None
      THEN parse_with_language(patterns, date_string, base_time, lang_key)
      ELSE ScanParse(patterns, date_string, base_time, 1)

\* one language's two patterns against the stripped string
PatternsMatch(lang_config, date_string) ==
  \/ /\ "month_pattern" \in DOMAIN lang_config
     /\ Match(lang_config.month_pattern, Strip(date_string)).matched
  \/ /\ "week_pattern" \in DOMAIN lang_config
     /\ Match(lang_config.week_pattern, Strip(date_string)).matched

\* is_applicable(date_string, language)
is_applicable(patterns, code_map, date_string, language) ==
  LET lang_key == IF language # None /\ language # <<>>
                  THEN get_language_key(code_map, language)
                  ELSE None
  IN  IF lang_key # None /\ DictHas(patterns, lang_key)
      THEN PatternsMatch(DictGet(patterns, lang_key), date_string)
      ELSE \E i \in DOMAIN patterns : PatternsMatch(patterns[i].value, date_string)

PhraseWords ==
  <<"z", "h">> :> [week_con |-> <<"U+5468">>, week_suf |-> <<>>,
              month_con |-> <<"U+4E2A", "U+6708">>, month_suf |-> <<"U+53F7">>]
  @@ <<"e", "n">> :> [week_con |-> <<" ">>, week_suf |-> <<>>,
              month_con |-> <<" ", "m", "o", "n", "t", "h", " ">>, month_suf |-> <<>>]
  @@ <<"e", "s">> :> [week_con |-> <<" ">>, week_suf |-> <<>>,
              month_con |-> <<" ", "m", "e", "s", " ">>, month_suf |-> <<>>]
  @@ <<"f", "r">> :> [week_con |-> <<" ">>, week_suf |-> <<>>,
              month_con |-> <<" ", "m", "o", "i", "s", " ">>, month_suf |-> <<>>]
  @@ <<"d", "e">> :> [week_con |-> <<" ">>, week_suf |-> <<>>,
              month_con |-> <<" ", "m", "o", "n", "a", "t", " ">>, month_suf |-> <<>>]
  @@ <<"j", "a">> :> [week_con |-> <<"U+9031", "U+306E">>, week_suf |-> <<"U+66DC", "U+65E5">>,
              month_con |-> <<"U+6708">>, month_suf |-> <<"U+65E5">>]
  @@ <<"r", "u">> :> [week_con |-> <<" ">>, week_suf |-> <<>>,
              month_con |-> <<" ", "U+043C", "U+0435", "U+0441", "U+044F", "U+0446", " ">>, month_suf |-> <<>>]
  @@ <<"i", "t">> :> [week_con |-> <<" ">>, week_suf |-> <<>>,
              month_con |-> <<" ", "m", "e", "s", "e", " ">>, month_suf |-> <<>>]
  @@ <<"p", "t">> :> [week_con |-> <<" ">>, week_suf |-> <<>>,
              month_con |-> <<" ", "m", "U+00EA", "s", " ">>, month_suf |-> <<>>]
  @@ <<"k", "o">> :> [week_con |-> <<" ", "U+C8FC", " ">>, week_suf |-> <<"U+C694", "U+C77C">>,
              month_con |-> <<" ", "U+B2EC", " ">>, month_suf |-> <<"U+C77C">>]
\* ------------------------------------------------------------------------
\* Inputs of the calls
\* ------------------------------------------------------------------------

\* the largest day number written into a month-day phrase
MaxDay == 33

\* the most blanks put around a phrase
MaxPad == 1

Datetime(y, mo, d, h, mi, s) ==
  [kind |-> "datetime", year |-> y, month |-> mo, day |-> d,
   hour |-> h, minute |-> mi, second |-> s, microsecond |-> 0]

LangKeys == {LanguagePatterns[i].key : i \in DOMAIN LanguagePatterns}

Config(lang) == DictGet(LanguagePatterns, lang)

RECURSIVE Decimal(_)
Decimal(n) ==
  IF n < 10 THEN <<DigitChars[n + 1]>>
  ELSE Decimal(n \div 10) \o <<DigitChars[(n % 10) + 1]>>

\* a call's text with how it was written: form "week" is
\* "<qualifier> <weekday>", form "month" is "<qualifier> month <day>"
Input(text, form, lang, qualifier, unit) ==
  [text |-> text, form |-> form, lang |-> lang, qualifier |-> qualifier, unit |-> unit]

Other(text) == Input(text, "other", <<>>, <<>>, <<>>)

WeekInput(lang, q, w) ==
  Input(q \o PhraseWords[lang].week_con \o w \o PhraseWords[lang].week_suf,
        "week", lang, q, w)

MonthInput(lang, q, d) ==
  Input(q \o PhraseWords[lang].month_con \o d \o PhraseWords[lang].month_suf,
        "month", lang, q, d)

\* the week phrases of every language whose weekday index is in days
WeekInputs(days) ==
  UNION {{WeekInput(lang, q, w) : q \in DOMAIN Config(lang).relative_map,
                                  w \in {x \in DOMAIN Config(lang).weekday_map :
                                           Config(lang).weekday_map[x] \in days}}
         : lang \in LangKeys}

\* day tokens: numerals 0..MaxDay, two-digit forms, and for a language with
\* numeral words those and two words its map lacks
ZhTenTen == <<"U+5341", "U+5341">>

ZhThirtyTwo == <<"U+4E09", "U+5341", "U+4E8C">>

NumeralWords(lang) ==
  IF "number_map" \in DOMAIN Config(lang)
  THEN DOMAIN Config(lang).number_map \cup {ZhTenTen, ZhThirtyTwo}
  ELSE {}

DayTokens(lang) ==
  {Decimal(n) : n \in 0..MaxDay} \cup {<<"0", "0">>, <<"0", "7">>, <<"9", "9">>}
  \cup NumeralWords(lang)

SomeDayTokens(lang) ==
  {<<"0">>, <<"1", "7">>, <<"3", "2">>}
  \cup (NumeralWords(lang) \cap {<<"U+5341", "U+4E03">>, ZhTenTen})

\* the month-day phrases of every language, over all its day tokens or some
MonthInputs(all) ==
  UNION {{MonthInput(lang, q, d) : q \in DOMAIN Config(lang).relative_map,
                                   d \in IF all THEN DayTokens(lang) ELSE SomeDayTokens(lang)}
         : lang \in LangKeys}

Blanks(n) == [i \in 1..n |-> " "]

\* texts that are no phrase, or a phrase in another case, padded, or followed
\* by other text
OtherTexts ==
  { <<>>, <<" ">>,
    <<"h", "e", "l", "l", "o", " ", "w", "o", "r", "l", "d">>,
    <<"l", "a", "s", "t">>,
    <<"l", "a", "s", "t", " ", "m", "o", "n", "t", "h">>,
    <<"l", "a", "s", "t", " ", "m", "o", "n", "t", "h", " ", "x">>,
    <<"m", "o", "n", "t", "h", " ", "1", "7">>,
    <<"f", "r", "i", "d", "a", "y">>,
    <<"U+4E0A", "U+5468">>,
    <<"U+5148", "U+6708", "1", "7", "5", "U+65E5">>,
    <<"L", "A", "S", "T", " ", "F", "R", "I", "D", "A", "Y">>,
    <<"N", "e", "x", "t", " ", "M", "o", "n", "t", "h", " ", "2", "2", "N", "D">>,
    <<"P", "r", "U+00F3", "x", "i", "m", "o", " ", "S", "U+00E1", "b", "a", "d", "o">>,
    <<"U+041F", "U+0440", "U+043E", "U+0448", "U+043B", "U+044B", "U+0439", " ",
      "U+043F", "U+044F", "U+0442", "U+043D", "U+0438", "U+0446", "U+0430">>,
    <<"l", "a", "s", "t", " ", "f", "r", "i", "d", "a", "y", " ", "a", "n", "d",
      " ", "m", "o", "r", "e">> }
  \cup {Blanks(n) \o t \o Blanks(n) :
          n \in 1..MaxPad,
          t \in { <<"n", "e", "x", "t", "\t", "m", "o", "n", "d", "a", "y">>,
                  <<"t", "h", "i", "s", " ", "m", "o", "n", "t", "h", " ", "3", "1", "s", "t">>,
                  <<"U+4E0B", "U+6708", "U+4E8C", "U+5341", "U+4E8C", "U+53F7">>,
                  <<"U+C9C0", "U+B09C", "U+AE08", "U+C694", "U+C77C">> }}

\* the locale hints: none, the empty string, two codes of no locale, and one
\* accepted variant of each locale
Hints ==
  << None, <<>>,
     <<"x", "x">>, <<"e", "n", "_", "u", "s">>,
     <<"z", "h", "-", "H", "a", "n", "s">>, <<"E", "N", "-", "u", "s">>,
     <<"e", "s">>, <<"f", "r", "-", "C", "A">>, <<"d", "e">>, <<"j", "a", "-", "J", "P">>,
     <<"R", "U">>, <<"i", "t", "-", "I", "T">>, <<"p", "t", "-", "b", "r">>, <<"k", "o">> >>

\* Monday 2024-01-15 10:00:00, the base time of the repository's tests
TestBase == Datetime(2024, 1, 15, 10, 0, 0)

\* datetime.min and datetime.max to the second
MinBase == Datetime(MINYEAR, 1, 1, 0, 0, 0)

MaxBase == Datetime(MAXYEAR, 12, 31, 23, 59, 59)

Bases == {TestBase, MinBase, MaxBase}

\* what datetime.now() may return
Clock == {Datetime(2026, 2, 28, 8, 30, 0)}

\* ------------------------------------------------------------------------
\* The parser object and its calls
\* ------------------------------------------------------------------------

VARIABLES
  language_patterns,   \* self.language_patterns
  language_code_map,   \* self.language_code_map
  op,                  \* the method being called, "idle" between calls
  date_string,         \* its arguments: the text,
  base_time,           \*   the base time (the clock's when none was passed),
  language,            \*   the locale hint
  result,              \* what the call returned or raised
  phrase,              \* how the text was written (an Input without its text)
  first                \* an earlier parse call, kept for comparison

vars == <<language_patterns, language_code_map, op, date_string, base_time,
          language, result, phrase, first>>

\* __init__, and the module's instance (compound_relative_parser)
Init ==
  /\ language_patterns = LanguagePatterns
  /\ language_code_map = LanguageCodeMap
  /\ op = "idle"
  /\ date_string = <<>>
  /\ base_time = None
  /\ language = None
  /\ result = None
  /\ phrase = Other(<<>>)
  /\ first = None

\* a call that drops the first language of the table it has read
TablesAfterCallDropping(patterns, code_map) ==
  <<IF patterns = <<>> THEN patterns ELSE Tail(patterns), code_map>>

\* parse and is_applicable read the two tables and assign to neither
TablesAfterCall(patterns, code_map) == <<patterns, code_map>>

ThisCall == [date_string |-> date_string, base_time |-> base_time,
             language |-> language, result |-> result]

\* parse(inp.text, b, h)
DoParse(inp, b, h) ==
  /\ op' = "parse"
  /\ date_string' = inp.text
  /\ base_time' = b
  /\ language' = h
  /\ phrase' = inp
  /\ result' = parse(language_patterns, language_code_map, inp.text, b, h)
  /\ language_patterns' = TablesAfterCall(language_patterns, language_code_map)[1]
  /\ language_code_map' = TablesAfterCall(language_patterns, language_code_map)[2]

\* is_applicable(inp.text, h)
DoIsApplicable(inp, h) ==
  /\ op' = "is_applicable"
  /\ date_string' = inp.text
  /\ base_time' = None
  /\ language' = h
  /\ phrase' = inp
  /\ result' = [kind |-> "bool", value |->
                  is_applicable(language_patterns, language_code_map, inp.text, h)]
  /\ language_patterns' = TablesAfterCall(language_patterns, language_code_map)[1]
  /\ language_code_map' = TablesAfterCall(language_patterns, language_code_map)[2]

\* the call returns to its caller: its frame is gone, the tables stay
Return ==
  /\ op # "idle"
  /\ op' = "idle"
  /\ date_string' = <<>>
  /\ base_time' = None
  /\ language' = None
  /\ result' = None
  /\ phrase' = Other(<<>>)
  /\ UNCHANGED <<language_patterns, language_code_map, first>>

\* the call returns, and the caller keeps its arguments and result
Keep ==
  /\ op = "parse"
  /\ first = None
  /\ first' = ThisCall
  /\ op' = "idle"
  /\ date_string' = <<>>
  /\ base_time' = None
  /\ language' = None
  /\ result' = None
  /\ phrase' = Other(<<>>)
  /\ UNCHANGED <<language_patterns, language_code_map>>

\* ---- Spec: calls over texts of every kind, every hint, the extreme bases

Inputs == WeekInputs({6}) \cup MonthInputs(FALSE) \cup {Other(t) : t \in OtherTexts}

Parse ==
  /\ op = "idle"
  /\ \E inp \in Inputs, b \in Bases, i \in DOMAIN Hints :
       DoParse(inp, b, Hints[i]) /\ UNCHANGED first

\* parse without a base time: base_time = datetime.now()
ParseNow ==
  /\ op = "idle"
  /\ \E inp \in Inputs, b \in Clock, i \in DOMAIN Hints :
       DoParse(inp, b, Hints[i]) /\ UNCHANGED first

IsApplicable ==
  /\ op = "idle"
  /\ \E inp \in Inputs, i \in DOMAIN Hints :
       DoIsApplicable(inp, Hints[i]) /\ UNCHANGED first

Next == Parse \/ ParseNow \/ IsApplicable \/ Return

Spec == Init /\ [][Next]_vars

\* ---- SpecWeek: every week phrase of every language, that language as hint

\* the most days a base time lies after TestBase
MaxShift == 6

WeekBases ==
  {AddDays(TestBase, n) : n \in 0..MaxShift}
  \cup { Datetime(2023, 12, 31, 23, 59, 59), Datetime(2024, 2, 28, 0, 0, 0),
         Datetime(2024, 3, 1, 12, 0, 0), Datetime(1900, 2, 28, 6, 0, 0),
         MinBase, Datetime(MINYEAR, 1, 14, 1, 2, 3),
         MaxBase, Datetime(MAXYEAR, 12, 18, 1, 2, 3) }

ParseWeek ==
  /\ op = "idle"
  /\ \E inp \in WeekInputs(0..6), b \in WeekBases :
       DoParse(inp, b, inp.lang) /\ UNCHANGED first

NextWeek == ParseWeek \/ Return

SpecWeek == Init /\ [][NextWeek]_vars

\* ---- SpecMonth: every month-day phrase of every language, that language as
\* hint, from bases at month ends, in leap years, and in the first and last
\* representable months

MonthBases ==
  { TestBase,
    Datetime(2024, 1, 31, 10, 0, 0), Datetime(2023, 1, 31, 23, 59, 59),
    Datetime(2024, 3, 31, 10, 0, 0), Datetime(2024, 12, 31, 0, 0, 0),
    Datetime(2024, 2, 29, 10, 0, 0), Datetime(1900, 3, 31, 10, 0, 0),
    Datetime(2000, 3, 31, 10, 0, 0), Datetime(2024, 10, 31, 10, 0, 0),
    Datetime(MINYEAR, 1, 15, 10, 0, 0), Datetime(MINYEAR, 2, 28, 10, 0, 0),
    Datetime(MAXYEAR, 11, 30, 10, 0, 0), MaxBase }

ParseMonth ==
  /\ op = "idle"
  /\ \E inp \in MonthInputs(TRUE), b \in MonthBases :
       DoParse(inp, b, inp.lang) /\ UNCHANGED first

NextMonth == ParseMonth \/ Return

SpecMonth == Init /\ [][NextMonth]_vars

\* ---- SpecTrail: a text is parsed, then the same text with more characters
\* after it, with the same base time and hint

Trailings ==
  { <<"x">>, <<"7">>, <<"0">>, <<" ", "7">>, <<"s", "t">>, <<"t", "h">>, <<" ">>,
    <<"U+65E5">>, <<"U+53F7">>, <<" ", "a", "n", "d", " ", "m", "o", "r", "e">> }

TrailTokens(lang) ==
  {<<"1">>, <<"3">>, <<"1", "7">>, <<"3", "1">>}
  \cup (NumeralWords(lang) \cap {<<"U+4E09">>, <<"U+5341">>})

TrailInputs ==
  WeekInputs({0, 6})
  \cup UNION {{MonthInput(lang, q, d) : q \in DOMAIN Config(lang).relative_map,
                                       d \in TrailTokens(lang)} : lang \in LangKeys}
  \cup {Other(<<"l", "a", "s", "t", " ", "m", "o", "n", "t", "h", " ", "1", " ">>),
        Other(<<"l", "a", "s", "t", " ", "m", "o", "n", "t", "h", " ">>)}

ParseShort ==
  /\ op = "idle"
  /\ first = None
  /\ \E inp \in TrailInputs, b \in {TestBase}, own \in BOOLEAN :
       /\ own => inp.form # "other"
       /\ DoParse(inp, b, IF own THEN inp.lang ELSE None)
       /\ UNCHANGED first

ParseLonger ==
  /\ op = "idle"
  /\ first # None
  /\ \E t \in Trailings :
    /\ DoParse(Other(first.date_string \o t), first.base_time, first.language)
    /\ UNCHANGED first

NextTrail == ParseShort \/ Keep \/ ParseLonger \/ Return

SpecTrail == Init /\ [][NextTrail]_vars

\* ---- SpecRepeat: a call is made and kept, then any calls follow

RepeatInputs ==
  { WeekInput(<<"z", "h">>, <<"U+4E0A">>, <<"U+4E94">>),
    WeekInput(<<"e", "n">>, <<"l", "a", "s", "t">>, <<"f", "r", "i", "d", "a", "y">>),
    WeekInput(<<"p", "t">>, <<"p", "r", "U+00F3", "x", "i", "m", "o">>,
              <<"s", "U+00E1", "b", "a", "d", "o">>),
    MonthInput(<<"e", "n">>, <<"l", "a", "s", "t">>, <<"3", "1">>),
    MonthInput(<<"k", "o">>, <<"U+C774", "U+BC88">>, <<"7">>),
    Other(<<"h", "e", "l", "l", "o", " ", "w", "o", "r", "l", "d">>) }

RepeatHints ==
  << None, <<"x", "x">>, <<"E", "N", "-", "u", "s">>, <<"z", "h", "-", "H", "a", "n", "s">>,
     <<"p", "t", "-", "b", "r">> >>

ParseAny ==
  /\ op = "idle"
  /\ \E inp \in RepeatInputs, b \in {TestBase, MaxBase}, i \in DOMAIN RepeatHints :
       DoParse(inp, b, RepeatHints[i]) /\ UNCHANGED first

ParseAnyNow ==
  /\ op = "idle"
  /\ \E inp \in RepeatInputs, b \in Clock, i \in DOMAIN RepeatHints :
       DoParse(inp, b, RepeatHints[i]) /\ UNCHANGED first

IsApplicableAny ==
  /\ op = "idle"
  /\ \E inp \in RepeatInputs, i \in DOMAIN RepeatHints :
       DoIsApplicable(inp, RepeatHints[i]) /\ UNCHANGED first

NextRepeat == ParseAny \/ ParseAnyNow \/ IsApplicableAny \/ Keep \/ Return

SpecRepeat == Init /\ [][NextRepeat]_vars

\* ---- SpecScan: a phrase is parsed with a language as hint, whether its
\* own or another, then with no hint and the same base time

ScanInputs == WeekInputs(0..6) \cup MonthInputs(FALSE)

ScanBases == {TestBase, Datetime(2024, 1, 31, 23, 59, 59), MaxBase}

ParseHinted ==
  /\ op = "idle"
  /\ first = None
  /\ \E inp \in ScanInputs, b \in ScanBases, lang \in LangKeys :
       DoParse(inp, b, lang) /\ UNCHANGED first

ParseUnhinted ==
  /\ op = "idle"
  /\ first # None
  /\ DoParse(Other(first.date_string), first.base_time, None)
  /\ UNCHANGED first

NextScan == ParseHinted \/ Keep \/ ParseUnhinted \/ Return

SpecScan == Init /\ [][NextScan]_vars

\* ------------------------------------------------------------------------
\* Properties
\* ------------------------------------------------------------------------

\* a locale hint was passed: a string, and not the empty one
HasHint == language # None /\ language # <<>>

\* code is, in any case of letters, an accepted variant of some locale
Accepted(code) ==
  \E i \in DOMAIN LanguageCodeMap :
    \E j \in DOMAIN LanguageCodeMap[i].value : LanguageCodeMap[i].value[j] = Lower(code)

\* the locale whose variants hold code
LocaleOf(code) ==
  LanguageCodeMap[CHOOSE i \in DOMAIN LanguageCodeMap :
                    \E j \in DOMAIN LanguageCodeMap[i].value :
                      LanguageCodeMap[i].value[j] = Lower(code)].key

SameTimeOfDay(a, b) ==
  /\ a.hour = b.hour
  /\ a.minute = b.minute
  /\ a.second = b.second
  /\ a.microsecond = b.microsecond

\* C1: resolve with a locale hint that is no accepted variant of any locale
\* returns None, whatever the text and the base time.
C1_UnknownHintIsNoMatch ==
  (op = "parse" /\ HasHint /\ ~Accepted(language)) => result = None

\* the whole days from base to the weekday the phrase names, in the week the
\* qualifier names: (t - weekdayIndex(base)) + 7 * q
WeekShift(ph, base) ==
  LET cfg == Config(ph.lang)
  IN  (cfg.weekday_map[ph.unit] - Weekday(base)) + 7 * cfg.relative_map[ph.qualifier]

\* result is base moved by n whole days, on weekday t, at base's time of day
IsShiftedBy(res, base, n, t) ==
  /\ IsDatetime(res)
  /\ ToOrdinal(res) = ToOrdinal(base) + n
  /\ Weekday(res) = t
  /\ SameTimeOfDay(res, base)

\* a "<qualifier> <weekday>" phrase was resolved with its own locale as hint
WeekCall ==
  /\ op = "parse"
  /\ phrase.form = "week"
  /\ HasHint
  /\ Accepted(language)
  /\ LocaleOf(language) = phrase.lang

DayNamed(ph) ==
  IF IsDigits(ph.unit) THEN IntOf(ph.unit)
  ELSE IF "number_map" \in DOMAIN Config(ph.lang) /\ ph.unit \in DOMAIN Config(ph.lang).number_map
       THEN Config(ph.lang).number_map[ph.unit]
       ELSE 0

\* the months from year 0 to the month m months from base's
TargetMonth(ph, base) ==
  base.year * 12 + (base.month - 1) + Config(ph.lang).relative_map[ph.qualifier]

\* day d of the month numbered mi, or that month's last day, at base's time
MonthDayOf(base, mi, d) ==
  LET y  == mi \div 12
      mo == (mi % 12) + 1
  IN  [base EXCEPT !.year = y, !.month = mo,
                   !.day = IF d <= DaysInMonth(y, mo) THEN d ELSE DaysInMonth(y, mo)]

\* a "<qualifier> month <day>" phrase with a day in 1..31 was resolved with
\* its own locale as hint
MonthCall ==
  /\ op = "parse"
  /\ phrase.form = "month"
  /\ HasHint
  /\ Accepted(language)
  /\ LocaleOf(language) = phrase.lang
  /\ DayNamed(phrase) \in 1..31

\* C3 as claimed: for every base time, month offset and day 1..31 the phrase
\* resolves to that day, or the month's last, of the month m months from
\* base's, at base's time of day; never None.
C3_MonthDayAnyBase ==
  MonthCall => result = MonthDayOf(base_time, TargetMonth(phrase, base_time), DayNamed(phrase))

\* C3, amended: the same for every base time whose target month lies in the
\* years 1..9999.
C3_MonthDay ==
  (MonthCall /\ TargetMonth(phrase, base_time) \div 12 \in MINYEAR..MAXYEAR)
    => result = MonthDayOf(base_time, TargetMonth(phrase, base_time), DayNamed(phrase))

\* day 31 asked of a leap February from a base on the 31st
C3_Witness ==
  /\ MonthCall
  /\ DayNamed(phrase) = 31
  /\ base_time.day = 31
  /\ IsDatetime(result)
  /\ result.month = 2
  /\ result.day = 29

\* a hint that resolves to a locale was passed and neither pattern of that
\* locale matches the text
HintedMiss ==
  /\ op = "parse"
  /\ HasHint
  /\ Accepted(language)
  /\ ~PatternsMatch(Config(LocaleOf(language)), date_string)

\* C4: with a hint that resolves to locale L only L's patterns are tried: a
\* text that matches neither gives None, also when another locale's matches.
C4_HintedLocaleOnly == HintedMiss => result = None

C4_Witness ==
  /\ HintedMiss
  /\ \E lang \in LangKeys : PatternsMatch(Config(lang), date_string)
  /\ result = None

\* C5: resolve and isApplicable end with a value (a timestamp or None, a
\* boolean); no exception leaves a call.
C5_NoException == result.kind # "raise"

\* two hints are the same: both absent, or the same string
SameHint(a, b) == IF a = None \/ b = None THEN a = None /\ b = None ELSE a = b

\* the text of this call is the kept call's text with characters after it,
\* and the base time and the hint are the kept call's
LongerCall ==
  /\ op = "parse"
  /\ first # None
  /\ base_time = first.base_time
  /\ SameHint(language, first.language)
  /\ Len(date_string) > Len(first.date_string)
  /\ SubSeq(date_string, 1, Len(first.date_string)) = first.date_string

\* text ends with the one-digit day of a locale's month-day phrase
EndsWithOneDigitDay(text) ==
  /\ text # <<>>
  /\ text[Len(text)] \in Digits
  /\ \E lang \in LangKeys :
       LET m == Match(Config(lang).month_pattern, Strip(text))
       IN  /\ m.matched
           /\ m.end = Len(Strip(text)) + 1
           /\ Len(m.groups[2]) = 1

\* C6 as claimed: when a text resolves to a timestamp, the text followed by
\* any further characters resolves, with the same base time and hint, to the
\* same timestamp.
C6_TrailingIgnoredAlways ==
  (LongerCall /\ IsDatetime(first.result)) => result = first.result

\* C6, amended: the same, unless the text ends with the one-digit day of a
\* month-day phrase and the characters after it begin with a digit (the day
\* is then read with that digit).
C6_TrailingIgnored ==
  (/\ LongerCall
   /\ IsDatetime(first.result)
   /\ ~(/\ EndsWithOneDigitDay(first.date_string)
        /\ date_string[Len(first.date_string) + 1] \in Digits))
    => result = first.result

\* a digit after a text that ends with a two-digit day
C6_Witness ==
  /\ LongerCall
  /\ IsDatetime(first.result)
  /\ first.date_string[Len(first.date_string)] \in Digits
  /\ date_string = first.date_string \o <<"7">>
  /\ result = first.result

Values(map) == {map[k] : k \in DOMAIN map}

Injective(map) == \A a, b \in DOMAIN map : map[a] = map[b] => a = b

\* every qualifier of every locale maps to -1, 0 or 1, and the weekday names
\* of every locale cover the indices 0..6
TablesWellFormed ==
  \A i \in DOMAIN language_patterns :
    /\ Values(language_patterns[i].value.relative_map) \subseteq {-1, 0, 1}
    /\ Values(language_patterns[i].value.weekday_map) = 0..6

\* C7 as claimed: in every locale the qualifiers map to -1, 0 or 1 and the
\* weekday names map to indices that are unique and cover exactly 0..6.
C7_TablesUniqueWeekdays ==
  /\ TablesWellFormed
  /\ \A i \in DOMAIN language_patterns : Injective(language_patterns[i].value.weekday_map)

\* C7, amended: qualifiers map to -1, 0 or 1 and weekday names cover exactly
\* 0..6 in every locale; the indices are unique in every locale but zh, where
\* every index has more than one name (a numeral, a digit, and for Sunday two
\* numerals).
C7_Tables ==
  /\ TablesWellFormed
  /\ \A i \in DOMAIN language_patterns :
       LET map == language_patterns[i].value.weekday_map
       IN  IF language_patterns[i].key = <<"z", "h">>
           THEN \A d \in 0..6 : Cardinality({k \in DOMAIN map : map[k] = d}) > 1
           ELSE Injective(map)

\* the ten tables as a call has left them, zh with its two names of Sunday
C7_Witness ==
  /\ op = "parse"
  /\ Len(language_patterns) = 10
  /\ \E i \in DOMAIN language_patterns :
       /\ language_patterns[i].key = <<"z", "h">>
       /\ language_patterns[i].value.weekday_map[<<"U+65E5">>] = 6
       /\ language_patterns[i].value.weekday_map[<<"U+5929">>] = 6

\* C8: isApplicable is true exactly when a pattern of a selected locale
\* matches the text: with a hint the hinted locale only, false for an unknown
\* hint; with no hint any locale.
C8_IsApplicableDispatch ==
  op = "is_applicable" =>
    result.value =
      IF HasHint
      THEN Accepted(language) /\ PatternsMatch(Config(LocaleOf(language)), date_string)
      ELSE \E lang \in LangKeys : PatternsMatch(Config(lang), date_string)

\* this call has the arguments of the kept call
SameCall ==
  /\ op = "parse"
  /\ first # None
  /\ date_string = first.date_string
  /\ base_time = first.base_time
  /\ SameHint(language, first.language)

BadDayCall ==
  /\ op = "parse"
  /\ phrase.form = "month"
  /\ HasHint
  /\ Accepted(language)
  /\ LocaleOf(language) = phrase.lang
  /\ LET m == Match(Config(phrase.lang).month_pattern, Strip(date_string))
     IN  m.matched /\ m.groups[2] = phrase.unit
  /\ DayNamed(phrase) \notin 1..31

\* C10: when the month-day pattern of the hinted locale matches and the day
\* token is an integer outside 1..31 or an unknown numeral word, the result is
\* None: no clamping into the month, no try of the weekday pattern.
C10_BadDayIsNoMatch == BadDayCall => result = None

\* day 32, which a clamp would turn into the month's last day
C10_Witness ==
  /\ BadDayCall
  /\ phrase.unit = <<"3", "2">>
  /\ result = None

\* this call has no hint, and the text and the base time of the kept call,
\* which had a hint that resolves to a locale and returned a timestamp
UnhintedAfterHinted ==
  /\ op = "parse"
  /\ first # None
  /\ language = None
  /\ date_string = first.date_string
  /\ base_time = first.base_time
  /\ first.language # None
  /\ first.language # <<>>
  /\ Accepted(first.language)
  /\ IsDatetime(first.result)

\* C11: when parse with a hint that resolves to a locale returns a timestamp,
\* parse of the same text and base time with no hint returns the same
\* timestamp, also for a phrase that several locales share.
C11_ScanAgreesWithHint == UnhintedAfterHinted => result = first.result

\* a phrase of pt that es, scanned before pt, matches too
C11_Witness ==
  /\ UnhintedAfterHinted
  /\ LocaleOf(first.language) = <<"p", "t">>
  /\ PatternsMatch(Config(<<"e", "s">>), date_string)
  /\ result = first.result

====
